---- MODULE Spec2Model ----
(***************************************************************************)
(* Model of the Wikipedia retrieval pipeline of src/data_collection:       *)
(*   refine_query_with_gemini   (query_refiner.py)                         *)
(*   search_wikipedia, get_wikipedia_content   (wikipedia_api.py)          *)
(*   is_relevant_page_gemini    (relevance_scorer.py)                      *)
(*   fetch_best_wikipedia_page  (wiki_search_pipeline.py)                  *)
(*                                                                         *)
(* Text handled character by character (oracle answers, error messages,   *)
(* category names, queries) is a sequence of one-character strings.        *)
(* Titles and article extracts are only passed along and tested for        *)
(* emptiness, so they are plain strings.  A float score s is the integer   *)
(* s * SCALE (thousandths).                                                *)
(***************************************************************************)
EXTENDS Integers, Sequences, FiniteSets, TLC

\* ---------------------------------------------------------------- constants
GEMINI_MAX_RETRIES == 3
WIKI_MAX_RETRIES == 2
QUOTA_SLEEP == 60
SCALE == 1000
THRESHOLD == 700
NO_PAGES == "No Wikipedia pages found for this query."
NO_CONTENT == "No relevant Wikipedia content found."
None == "<None>"

\* ------------------------------------------------------------------- bounds
\* longest title list the search endpoint answers with
MaxTitles == 2

\* ------------------------------------------------------------- text helpers
Whitespace == {" ", "\t", "\n"}
Digits == {"0", "1", "2", "3", "4", "5", "6", "7", "8", "9"}

RECURSIVE LStrip(_)
LStrip(s) == IF s # <<>> /\ Head(s) \in Whitespace THEN LStrip(Tail(s)) ELSE s

RECURSIVE RStrip(_)
RStrip(s) ==
  IF s # <<>> /\ s[Len(s)] \in Whitespace THEN RStrip(SubSeq(s, 1, Len(s) - 1)) ELSE s

\* str.strip()
Strip(s) == RStrip(LStrip(s))

\* sub in text  (Python's substring test)
Contains(sub, text) ==
  \E i \in 0..(Len(text) - Len(sub)) : SubSeq(text, i + 1, i + Len(sub)) = sub

\* "429" in error_msg
Has429(error_msg) == Contains(<<"4", "2", "9">>, error_msg)

\* ''.join(c for c in score_text if c.isdigit() or c == '.')
RECURSIVE DigitsAndDots(_)
DigitsAndDots(s) ==
  IF s = <<>> THEN <<>>
  ELSE IF Head(s) \in Digits \cup {"."} THEN <<Head(s)>> \o DigitsAndDots(Tail(s))
  ELSE DigitsAndDots(Tail(s))

DigitVal(c) ==
  CASE c = "0" -> 0 [] c = "1" -> 1 [] c = "2" -> 2 [] c = "3" -> 3 [] c = "4" -> 4
    [] c = "5" -> 5 [] c = "6" -> 6 [] c = "7" -> 7 [] c = "8" -> 8 [] c = "9" -> 9

RECURSIVE IntVal(_)
IntVal(ds) == IF ds = <<>> THEN 0 ELSE 10 * IntVal(SubSeq(ds, 1, Len(ds) - 1)) + DigitVal(ds[Len(ds)])

DotPositions(s) == {i \in DOMAIN s : s[i] = "."}

\* float(score_text) succeeds: digits with at most one decimal point, at least one digit
FloatOk(s) ==
  /\ Cardinality(DotPositions(s)) <= 1
  /\ \E i \in DOMAIN s : s[i] \in Digits

\* float(score_text) in thousandths (fraction digits beyond the third are dropped)
FloatVal(s) ==
  LET dot == IF DotPositions(s) = {} THEN Len(s) + 1 ELSE CHOOSE i \in DotPositions(s) : TRUE
      ip == SubSeq(s, 1, dot - 1)
      fp == SubSeq(s, dot + 1, Len(s))
      f3 == SubSeq(fp \o <<"0", "0", "0">>, 1, 3)
  IN IntVal(ip) * SCALE + IntVal(f3)

\* str(ValueError) raised by float(score_text)
FloatErrPrefix ==
  <<"c", "o", "u", "l", "d", " ", "n", "o", "t", " ", "c", "o", "n", "v", "e", "r", "t", " ",
    "s", "t", "r", "i", "n", "g", " ", "t", "o", " ", "f", "l", "o", "a", "t", ":", " ", "'">>
FloatErrMsg(s) == FloatErrPrefix \o s \o <<"'">>

Min(a, b) == IF a <= b THEN a ELSE b
Max(a, b) == IF a >= b THEN a ELSE b

\* mutant of Clamp: the upper bound is forgotten
ClampLowerOnly(score) == Max(0, score)

\* max(0.0, min(score, 1.0))
Clamp(score) == Max(0, Min(score, SCALE))

\* mutant of Truthy: only None is falsy, the empty string is not
TruthyNotNone(v) == v # None

\* Python truthiness of a str-or-None value
Truthy(v) == v # None /\ v # ""

\* ------------------------------------------------------- category filtering
UpperCase ==
  <<"A", "B", "C", "D", "E", "F", "G", "H", "I", "J", "K", "L", "M",
    "N", "O", "P", "Q", "R", "S", "T", "U", "V", "W", "X", "Y", "Z">>
LowerCase ==
  <<"a", "b", "c", "d", "e", "f", "g", "h", "i", "j", "k", "l", "m",
    "n", "o", "p", "q", "r", "s", "t", "u", "v", "w", "x", "y", "z">>

\* mutant of Lower: the text is left as it is
LowerNone(s) == s

\* str.lower()
Lower(s) ==
  [i \in DOMAIN s |->
     IF \E k \in DOMAIN UpperCase : UpperCase[k] = s[i]
     THEN LowerCase[CHOOSE k \in DOMAIN UpperCase : UpperCase[k] = s[i]]
     ELSE s[i]]

DISAMBIGUATION == <<"d", "i", "s", "a", "m", "b", "i", "g", "u", "a", "t", "i", "o", "n">>

\* dict.get(key, default)
Get(d, key, default) == IF key \in DOMAIN d THEN d[key] ELSE default

\* any("disambiguation" in cat for cat in categories), categories lower-cased
IsDisambiguation(page) ==
  LET cats == Get(page, "categories", <<>>)
      categories == [i \in DOMAIN cats |-> Lower(cats[i])]
  IN \E i \in DOMAIN categories : Contains(DISAMBIGUATION, categories[i])

\* ------------------------------------------------------------------ ranking
\* candidates.sort(key=lambda x: x[2], reverse=True): stable, descending by score
\* mutant of InsertDesc: an unstable sort, a later candidate goes before its equals
RECURSIVE InsertDescBeforeEquals(_, _)
InsertDescBeforeEquals(sorted, c) ==
  IF sorted = <<>> THEN <<c>>
  ELSE IF Head(sorted)[3] > c[3]
       THEN <<Head(sorted)>> \o InsertDescBeforeEquals(Tail(sorted), c)
  ELSE <<c>> \o sorted

RECURSIVE InsertDesc(_, _)
InsertDesc(sorted, c) ==
  IF sorted = <<>> THEN <<c>>
  ELSE IF Head(sorted)[3] >= c[3] THEN <<Head(sorted)>> \o InsertDesc(Tail(sorted), c)
  ELSE <<c>> \o sorted

\* mutant of SortDesc: the candidates are left in the order they were scored
SortNone(cands) == cands

RECURSIVE SortDesc(_)
SortDesc(cands) ==
  IF cands = <<>> THEN <<>>
  ELSE InsertDesc(SortDesc(SubSeq(cands, 1, Len(cands) - 1)), cands[Len(cands)])

\* mutant of SelectResult: a top score under the threshold gives no result
SelectResultStrict(cands) ==
  IF cands # <<>> /\ cands[1][3] >= THRESHOLD
  THEN [title |-> cands[1][1], content |-> cands[1][2], score |-> cands[1][3]]
  ELSE [error |-> NO_CONTENT]

\* wiki_search_pipeline.py lines 38-48, applied to the sorted candidates
SelectResult(cands) ==
  IF cands # <<>> /\ cands[1][3] >= THRESHOLD
  THEN [title |-> cands[1][1], content |-> cands[1][2], score |-> cands[1][3]]
  ELSE IF cands # <<>>
  THEN [title |-> cands[1][1], content |-> cands[1][2], score |-> cands[1][3]]
  ELSE [error |-> NO_CONTENT]

\* ------------------------------------------------ the collaborators' answers
\* the caller's questions
Queries == {<<"w", "h", "y", "?">>}

\* Oracle.generate: an answer text, a quota error (HTTP 429) or another error
OracleText(t) == [kind |-> "text", s |-> t]
QuotaError == [kind |-> "quota", s |-> <<"4", "2", "9", " ", "R", "e", "s", "o", "u", "r", "c", "e", " ", "e", "x", "h", "a", "u", "s", "t", "e", "d">>]
ServiceError == [kind |-> "error", s |-> <<"5", "0", "0", " ", "I", "n", "t", "e", "r", "n", "a", "l", " ", "e", "r", "r", "o", "r">>]

RefineTexts == {<<" ", "g", "\n">>, <<"w", "h", "y", "?">>}
RefineOutcomes == {OracleText(t) : t \in RefineTexts} \cup {QuotaError, ServiceError}

ScoreTexts ==
  { <<"0", ".", "9", "5">>,
    <<" ", "0", ".", "3", "\n">>,
    <<"0", ".", "7">>,
    <<"-", "1", ".", "5">>,
    <<"n", "/", "a">>,
    <<>>,
    <<"1", ".", "4", "2", "9", ".", "0">> }
ScoreOutcomes == {OracleText(t) : t \in ScoreTexts} \cup {QuotaError, ServiceError}

\* titles the search endpoint knows, in its relevance order
AllTitles == <<"Gravity", "Quantum entanglement", "Quantum mechanics", "Sky", "Earthquake", "Moon">>
TitleLists == {SubSeq(AllTitles, 1, n) : n \in 0..MaxTitles}

\* query.search of a search response listing these titles
ResultsFor(l) == [i \in DOMAIN l |-> [title |-> l[i], pageid |-> i]]

\* [res["title"] for res in search_results]
TitlesOf(search_results) == [i \in DOMAIN search_results |-> search_results[i].title]

\* mutant of SearchParams: the request carries no srlimit
SearchParamsNoLimit(q) ==
  [action |-> "query", format |-> "json", list |-> "search", srsearch |-> q]

\* params of search_wikipedia (wikipedia_api.py lines 13-19)
SearchParams(q) ==
  [action |-> "query", format |-> "json", list |-> "search", srsearch |-> q, srlimit |-> 5]

\* what the search endpoint may answer to a request with these params when n titles match:
\* the best matches in its relevance order, at most srlimit of them (10 without srlimit)
EndpointResults(params, n) ==
  {ResultsFor(SubSeq(AllTitles, 1, k)) : k \in 0..Min(n, Get(params, "srlimit", 10))}

\* requests.get: a response with a status code, or a RequestException ("fault").
\* The body of a 200 response is "json" (data has the documented shape), "badshape" (JSON
\* of another shape: a result without a title, a page that is no object) or "notjson".
Response(code, body, data) ==
  [kind |-> "response", code |-> code, body |-> body, data |-> data]
NetworkFault == [kind |-> "fault", code |-> 0, body |-> "", data |-> <<>>]
RateLimited == Response(429, "", <<>>)
ServerError == Response(500, "", <<>>)
BadShape == Response(200, "badshape", <<>>)
NotJson == Response(200, "notjson", <<>>)
Failures == {RateLimited, ServerError, BadShape, NotJson, NetworkFault}

SearchOutcomes ==
  {Response(200, "json", ResultsFor(l)) : l \in TitleLists} \cup Failures

\* pages of a content response (query.pages values)
ArticlePage ==
  [extract |-> "Article body.", categories |-> <<<<"C", "a", "t", "e", "g", "o", "r", "y", ":", "P", "h", "y", "s", "i", "c", "s">>>>]
MissingPage == [missing |-> ""]
EmptyExtractPage == [extract |-> "", categories |-> <<<<"C", "a", "t", "e", "g", "o", "r", "y", ":", "P", "h", "y", "s", "i", "c", "s">>>>]
DisambiguationPage ==
  [extract |-> "May refer to:",
   categories |-> <<<<"C", "a", "t", "e", "g", "o", "r", "y", ":", "P", "h", "y", "s", "i", "c", "s">>, <<"C", "a", "t", "e", "g", "o", "r", "y", ":", "D", "i", "s", "a", "m", "b", "i", "g", "u", "a", "t", "i", "o", "n", " ", "p", "a", "g", "e", "s">>>>]
DisambiguationEmptyPage ==
  [extract |-> "", categories |-> <<<<"C", "a", "t", "e", "g", "o", "r", "y", ":", "A", "l", "l", " ", "D", "I", "S", "A", "M", "B", "I", "G", "U", "A", "T", "I", "O", "N", " ", "p", "a", "g", "e", "s">>>>]
PageLists ==
  { <<>>, <<ArticlePage>>, <<MissingPage>>, <<EmptyExtractPage>>, <<DisambiguationPage>>,
    <<DisambiguationEmptyPage>>, <<ArticlePage, DisambiguationPage>> }

FetchOutcomes ==
  {Response(200, "json", p) : p \in PageLists} \cup Failures

\* -------------------------------------------------------------------- state
VARIABLES
  query,          \* the caller's question (argument of fetch_best_wikipedia_page)
  refined_query,  \* wiki_search_pipeline.py line 16
  titles,         \* lines 19, 22
  idx,            \* position of the for loop of line 29 in titles
  wiki_title,     \* line 30
  wiki_summary,   \* line 30
  candidates,     \* line 28
  result,         \* the value fetch_best_wikipedia_page returns
  pc,             \* call site the pipeline is at: "refine" (16), "search" (19), "fallback" (22),
                  \* "fetch" (30), "score" (32); or "returned" / "raised" when the pipeline ended
  status,         \* of the function called at pc: "running", "returned", "raised"
  attempt,        \* the called function's attempt counter
  ret,            \* <<v>> once the called function has returned v, <<>> before
  trace,          \* the collaborator's answers to the remote calls of this invocation, in order
  slept,          \* the time.sleep arguments of this invocation, in order
  searchCalls,    \* arguments of the search_wikipedia calls of this run
  searchRets,     \* values the search_wikipedia calls returned
  fetchCalls,     \* arguments of the get_wikipedia_content calls of this run
  fetchRets,      \* values the get_wikipedia_content calls returned
  scoreCalls,     \* arguments of the is_relevant_page_gemini calls of this run
  oracleCalls,    \* tally of the generate_content calls of this run
  getCalls        \* tally of the GET requests of this run

locals == <<query, refined_query, titles, idx, wiki_title, wiki_summary, candidates, result>>
callee == <<status, attempt, ret, trace, slept>>
calls == <<searchCalls, searchRets, fetchCalls, fetchRets, scoreCalls>>
\* the tallies are kept by the actions of SpecTally; elsewhere the calls are not counted
counts == <<oracleCalls, getCalls>>
vars == <<locals, pc, callee, calls, counts>>

Init ==
  /\ query \in Queries
  /\ refined_query = None
  /\ titles = <<>>
  /\ idx = 0
  /\ wiki_title = None
  /\ wiki_summary = None
  /\ candidates = <<>>
  /\ result = None
  /\ pc = "refine"
  /\ status = "running"
  /\ attempt = 0
  /\ ret = <<>>
  /\ trace = <<>>
  /\ slept = <<>>
  /\ searchCalls = <<>>
  /\ searchRets = <<>>
  /\ fetchCalls = <<>>
  /\ fetchRets = <<>>
  /\ scoreCalls = <<>>
  /\ oracleCalls = 0
  /\ getCalls = 0

\* the function at pc is entered
Invoke(site) ==
  /\ pc' = site
  /\ status' = "running"
  /\ attempt' = 0
  /\ ret' = <<>>
  /\ trace' = <<>>
  /\ slept' = <<>>

\* the running function returns v
Return(v) ==
  /\ status' = "returned"
  /\ ret' = <<v>>
  /\ UNCHANGED <<attempt, slept>>

\* mutant of SleepAndRetry: no sleep once the last attempt of the encyclopedia is reached
SleepAndRetryNotLast(seconds) ==
  /\ slept' = IF attempt >= WIKI_MAX_RETRIES THEN slept ELSE Append(slept, seconds)
  /\ attempt' = attempt + 1
  /\ UNCHANGED <<status, ret>>

\* the running function sleeps and starts its next attempt
SleepAndRetry(seconds) ==
  /\ slept' = Append(slept, seconds)
  /\ attempt' = attempt + 1
  /\ UNCHANGED <<status, ret>>

\* ------------------------------------------------- refine_query_with_gemini
\* mutant of RefineLoopCond: one attempt too few
RefineLoopCondStrict(a) == a < GEMINI_MAX_RETRIES

\* while attempt <= max_retries
RefineLoopCond(a) == a <= GEMINI_MAX_RETRIES

\* mutant of RefineCall: an error that is not a quota error is raised to the caller
RefineCallRaises ==
  /\ pc = "refine" /\ status = "running"
  /\ RefineLoopCond(attempt)
  /\ \E o \in RefineOutcomes :
       /\ trace' = Append(trace, o)
       /\ IF o.kind = "text" THEN Return(Strip(o.s))
          ELSE IF Has429(o.s) THEN SleepAndRetry(QUOTA_SLEEP)
          ELSE status' = "raised" /\ UNCHANGED <<attempt, ret, slept>>
  /\ UNCHANGED <<locals, pc, calls, counts>>

\* one pass of the loop of query_refiner.py lines 32-46
RefinePass(outcomes) ==
  /\ pc = "refine" /\ status = "running"
  /\ RefineLoopCond(attempt)
  /\ \E o \in outcomes :
       /\ trace' = Append(trace, o)
       /\ IF o.kind = "text" THEN Return(Strip(o.s))
          ELSE IF Has429(o.s) THEN SleepAndRetry(QUOTA_SLEEP)
          ELSE Return(query)
  /\ UNCHANGED <<locals, pc, calls>>

RefineCall == RefinePass(RefineOutcomes) /\ UNCHANGED counts

\* mutant of RefineExhausted: after the last quota error the empty string is returned
RefineExhaustedEmpty ==
  /\ pc = "refine" /\ status = "running"
  /\ ~RefineLoopCond(attempt)
  /\ Return(<<>>)
  /\ UNCHANGED <<locals, pc, calls, counts, trace>>

\* the loop ends without a return: line 47
RefineExhausted ==
  /\ pc = "refine" /\ status = "running"
  /\ ~RefineLoopCond(attempt)
  /\ Return(query)
  /\ UNCHANGED <<locals, pc, calls, counts, trace>>

\* -------------------------------------------------- is_relevant_page_gemini
\* mutant of ScoreLoopCond: one attempt too few
ScoreLoopCondStrict(a) == a < GEMINI_MAX_RETRIES

\* while attempt <= max_retries
ScoreLoopCond(a) == a <= GEMINI_MAX_RETRIES

\* the try block of relevance_scorer.py lines 33-38 on the oracle's answer o:
\* the score it returns, or the message of the exception it raises
ScoreTry(o) ==
  IF o.kind = "text"
  THEN LET score_text == DigitsAndDots(Strip(o.s))
       IN IF FloatOk(score_text)
          THEN [ok |-> TRUE, score |-> Clamp(FloatVal(score_text)), error_msg |-> <<>>]
          ELSE [ok |-> FALSE, score |-> 0, error_msg |-> FloatErrMsg(score_text)]
  ELSE [ok |-> FALSE, score |-> 0, error_msg |-> o.s]

\* one pass of the loop of relevance_scorer.py lines 31-47
ScorePass(outcomes) ==
  /\ pc = "score" /\ status = "running"
  /\ ScoreLoopCond(attempt)
  /\ \E o \in outcomes :
       /\ trace' = Append(trace, o)
       /\ LET t == ScoreTry(o)
          IN IF t.ok THEN Return(t.score)
             ELSE IF Has429(t.error_msg) THEN SleepAndRetry(QUOTA_SLEEP)
             ELSE Return(0)
  /\ UNCHANGED <<locals, pc, calls>>

ScoreCall == ScorePass(ScoreOutcomes) /\ UNCHANGED counts

\* the loop ends without a return: line 48
ScoreExhausted ==
  /\ pc = "score" /\ status = "running"
  /\ ~ScoreLoopCond(attempt)
  /\ Return(0)
  /\ UNCHANGED <<locals, pc, calls, counts, trace>>

\* ---------------------------------- search_wikipedia, get_wikipedia_content
\* mutant of InRange: one attempt too few
InRangeShort(a) == a < WIKI_MAX_RETRIES

\* mutant of InRange: one attempt too many
InRangeLong(a) == a <= WIKI_MAX_RETRIES + 1

\* for attempt in range(max_retries + 1)
InRange(a) == a <= WIKI_MAX_RETRIES

\* wait_time = 2 * (attempt + 1)
WaitTime(a) == 2 * (a + 1)

\* an exception that no except clause of the function catches
Raise ==
  /\ status' = "raised"
  /\ UNCHANGED <<attempt, ret, slept>>

\* mutant of OnRequestException: a network fault ends the invocation on any attempt
OnRequestExceptionNoRetry(empty) == Return(empty)

\* except requests.exceptions.RequestException (lines 35-40 and 81-85)
OnRequestException(empty) ==
  IF attempt < WIKI_MAX_RETRIES
  THEN attempt' = attempt + 1 /\ UNCHANGED <<status, ret, slept>>
  ELSE Return(empty)

\* mutant of HandleResponse: every status other than 200 is retried like a 429
HandleResponseRetryAll(o, onOk, empty) ==
  IF o.kind = "fault" THEN OnRequestException(empty)
  ELSE IF o.code = 200
  THEN IF o.body = "json" THEN Return(onOk)
       ELSE IF o.body = "notjson" THEN OnRequestException(empty) \/ Raise
       ELSE Raise
  ELSE SleepAndRetry(WaitTime(attempt))

\* what one pass of the loop does with the transport's answer o, common to both functions
\* (wikipedia_api.py lines 22-40 and 62-85); onOk is the 200 branch, empty the fallback value.
\* response.json() of a body that is not JSON raises a RequestException in some releases of
\* requests and a plain ValueError in others: either can happen.
HandleResponse(o, onOk, empty) ==
  IF o.kind = "fault" THEN OnRequestException(empty)
  ELSE IF o.code = 200
  THEN IF o.body = "json" THEN Return(onOk)
       ELSE IF o.body = "notjson" THEN OnRequestException(empty) \/ Raise
       ELSE Raise
  ELSE IF o.code = 429 THEN SleepAndRetry(WaitTime(attempt))
  ELSE Return(empty)

\* one pass of the loop of wikipedia_api.py lines 21-40
SearchPass(outcomes) ==
  /\ pc \in {"search", "fallback"} /\ status = "running"
  /\ InRange(attempt)
  /\ \E o \in outcomes :
       /\ trace' = Append(trace, o)
       /\ HandleResponse(o, TitlesOf(o.data), <<>>)
  /\ UNCHANGED <<locals, pc, calls>>

SearchCall == SearchPass(SearchOutcomes) /\ UNCHANGED counts

\* the loop ends without a return: line 42
SearchExhausted ==
  /\ pc \in {"search", "fallback"} /\ status = "running"
  /\ ~InRange(attempt)
  /\ Return(<<>>)
  /\ UNCHANGED <<locals, pc, calls, counts, trace>>

Absent == <<None, None>>

\* lines 66-73: the value returned for a 200 response with these pages
PageResult(title, pages) ==
  IF pages = <<>> THEN Absent
  ELSE IF IsDisambiguation(pages[1]) THEN Absent
  ELSE <<title, Get(pages[1], "extract", "")>>

\* one pass of the loop of wikipedia_api.py lines 61-85
FetchPass(outcomes) ==
  /\ pc = "fetch" /\ status = "running"
  /\ InRange(attempt)
  /\ \E o \in outcomes :
       /\ trace' = Append(trace, o)
       /\ HandleResponse(o, PageResult(titles[idx], o.data), Absent)
  /\ UNCHANGED <<locals, pc, calls>>

FetchCall == FetchPass(FetchOutcomes) /\ UNCHANGED counts

\* the loop ends without a return: line 87
FetchExhausted ==
  /\ pc = "fetch" /\ status = "running"
  /\ ~InRange(attempt)
  /\ Return(Absent)
  /\ UNCHANGED <<locals, pc, calls, counts, trace>>

\* ------------------------------------------------ fetch_best_wikipedia_page
\* get_wikipedia_content(title) is called for titles ts[i] (line 30)
CallFetch(ts, i) ==
  /\ idx' = i
  /\ fetchCalls' = Append(fetchCalls, ts[i])
  /\ Invoke("fetch")

\* lines 36-48: the loop is over; sort, select and return
Finish(cands) ==
  /\ candidates' = SortDesc(cands)
  /\ result' = SelectResult(SortDesc(cands))
  /\ pc' = "returned"
  /\ UNCHANGED <<idx, callee, fetchCalls>>

\* the for loop of line 29 moves to its next title, or ends
NextTitle(cands) ==
  IF idx < Len(titles) THEN CallFetch(titles, idx + 1) /\ candidates' = cands /\ result' = result
  ELSE Finish(cands)

\* line 16 returns; line 19 calls search_wikipedia(refined_query)
AfterRefine ==
  /\ pc = "refine" /\ status = "returned"
  /\ refined_query' = ret[1]
  /\ searchCalls' = Append(searchCalls, ret[1])
  /\ Invoke("search")
  /\ UNCHANGED <<counts, query, titles, idx, wiki_title, wiki_summary, candidates, result>>
  /\ UNCHANGED <<searchRets, fetchCalls, fetchRets, scoreCalls>>

\* mutant of AfterSearch: the second search repeats the refined term
AfterSearchRefinedAgain ==
  /\ pc = "search" /\ status = "returned"
  /\ titles' = ret[1]
  /\ searchRets' = Append(searchRets, ret[1])
  /\ IF ret[1] = <<>>
     THEN /\ searchCalls' = Append(searchCalls, refined_query)
          /\ Invoke("fallback")
          /\ UNCHANGED <<idx, fetchCalls>>
     ELSE /\ CallFetch(ret[1], 1)
          /\ UNCHANGED searchCalls
  /\ UNCHANGED <<counts, query, refined_query, wiki_title, wiki_summary, candidates, result>>
  /\ UNCHANGED <<fetchRets, scoreCalls>>

\* mutant of AfterSearch: the original query is searched whatever the first search returned
AfterSearchAlwaysFallback ==
  /\ pc = "search" /\ status = "returned"
  /\ titles' = ret[1]
  /\ searchRets' = Append(searchRets, ret[1])
  /\ searchCalls' = Append(searchCalls, query)
  /\ Invoke("fallback")
  /\ UNCHANGED <<idx, fetchCalls>>
  /\ UNCHANGED <<counts, query, refined_query, wiki_title, wiki_summary, candidates, result>>
  /\ UNCHANGED <<fetchRets, scoreCalls>>

\* line 19 returns; lines 20-22: fall back to the original query, or go on to the loop of line 29
AfterSearch ==
  /\ pc = "search" /\ status = "returned"
  /\ titles' = ret[1]
  /\ searchRets' = Append(searchRets, ret[1])
  /\ IF ret[1] = <<>>
     THEN /\ searchCalls' = Append(searchCalls, query)
          /\ Invoke("fallback")
          /\ UNCHANGED <<idx, fetchCalls>>
     ELSE /\ CallFetch(ret[1], 1)
          /\ UNCHANGED searchCalls
  /\ UNCHANGED <<counts, query, refined_query, wiki_title, wiki_summary, candidates, result>>
  /\ UNCHANGED <<fetchRets, scoreCalls>>

\* mutant of AfterFallback: the check of line 23 is missing, the empty loop runs
AfterFallbackNoCheck ==
  /\ pc = "fallback" /\ status = "returned"
  /\ titles' = ret[1]
  /\ searchRets' = Append(searchRets, ret[1])
  /\ IF ret[1] = <<>>
     THEN Finish(candidates)
     ELSE /\ CallFetch(ret[1], 1)
          /\ UNCHANGED <<candidates, result>>
  /\ UNCHANGED <<counts, query, refined_query, wiki_title, wiki_summary>>
  /\ UNCHANGED <<searchCalls, fetchRets, scoreCalls>>

\* line 22 returns; lines 23-24: give up, or go on to the loop of line 29
AfterFallback ==
  /\ pc = "fallback" /\ status = "returned"
  /\ titles' = ret[1]
  /\ searchRets' = Append(searchRets, ret[1])
  /\ IF ret[1] = <<>>
     THEN /\ result' = [error |-> NO_PAGES]
          /\ pc' = "returned"
          /\ UNCHANGED <<idx, callee, fetchCalls>>
     ELSE /\ CallFetch(ret[1], 1)
          /\ UNCHANGED result
  /\ UNCHANGED <<counts, query, refined_query, wiki_title, wiki_summary, candidates>>
  /\ UNCHANGED <<searchCalls, fetchRets, scoreCalls>>

\* mutant of AfterFetch: the article is scored against the refined term
AfterFetchRefined ==
  /\ pc = "fetch" /\ status = "returned"
  /\ wiki_title' = ret[1][1]
  /\ wiki_summary' = ret[1][2]
  /\ fetchRets' = Append(fetchRets, ret[1])
  /\ IF Truthy(ret[1][1]) /\ Truthy(ret[1][2])
     THEN /\ scoreCalls' = Append(scoreCalls, <<refined_query, ret[1][1], ret[1][2]>>)
          /\ Invoke("score")
          /\ UNCHANGED <<idx, candidates, result, fetchCalls>>
     ELSE /\ NextTitle(candidates)
          /\ UNCHANGED scoreCalls
  /\ UNCHANGED <<counts, query, refined_query, titles>>
  /\ UNCHANGED <<searchCalls, searchRets>>

\* mutant of AfterFetch: a skipped title leaves a zero-scored candidate
AfterFetchZeroScored ==
  /\ pc = "fetch" /\ status = "returned"
  /\ wiki_title' = ret[1][1]
  /\ wiki_summary' = ret[1][2]
  /\ fetchRets' = Append(fetchRets, ret[1])
  /\ IF Truthy(ret[1][1]) /\ Truthy(ret[1][2])
     THEN /\ scoreCalls' = Append(scoreCalls, <<query, ret[1][1], ret[1][2]>>)
          /\ Invoke("score")
          /\ UNCHANGED <<idx, candidates, result, fetchCalls>>
     ELSE /\ NextTitle(Append(candidates, <<ret[1][1], ret[1][2], 0>>))
          /\ UNCHANGED scoreCalls
  /\ UNCHANGED <<counts, query, refined_query, titles>>
  /\ UNCHANGED <<searchCalls, searchRets>>

\* line 30 returns; line 31: score the article, or skip the title
AfterFetch ==
  /\ pc = "fetch" /\ status = "returned"
  /\ wiki_title' = ret[1][1]
  /\ wiki_summary' = ret[1][2]
  /\ fetchRets' = Append(fetchRets, ret[1])
  /\ IF Truthy(ret[1][1]) /\ Truthy(ret[1][2])
     THEN /\ scoreCalls' = Append(scoreCalls, <<query, ret[1][1], ret[1][2]>>)
          /\ Invoke("score")
          /\ UNCHANGED <<idx, candidates, result, fetchCalls>>
     ELSE /\ NextTitle(candidates)
          /\ UNCHANGED scoreCalls
  /\ UNCHANGED <<counts, query, refined_query, titles>>
  /\ UNCHANGED <<searchCalls, searchRets>>

\* line 32 returns; line 34 appends the candidate
AfterScore ==
  /\ pc = "score" /\ status = "returned"
  /\ NextTitle(Append(candidates, <<wiki_title, wiki_summary, ret[1]>>))
  /\ UNCHANGED <<counts, query, refined_query, titles, wiki_title, wiki_summary>>
  /\ UNCHANGED <<searchCalls, searchRets, fetchRets, scoreCalls>>

\* an exception of the called function is not caught by fetch_best_wikipedia_page
Propagate ==
  /\ pc \in {"refine", "search", "fallback", "fetch", "score"} /\ status = "raised"
  /\ pc' = "raised"
  /\ UNCHANGED <<locals, callee, calls, counts>>

Next ==
  \/ RefineCall \/ RefineExhausted
  \/ SearchCall \/ SearchExhausted
  \/ FetchCall \/ FetchExhausted
  \/ ScoreCall \/ ScoreExhausted
  \/ AfterRefine \/ AfterSearch \/ AfterFallback \/ AfterFetch \/ AfterScore
  \/ Propagate

Spec == Init /\ [][Next]_vars

\* every step of Next changes the place of the run, the state of the call or its attempt
progress == <<pc, status, attempt>>

\* The interpreter keeps executing the one thread of the run, and every remote call returns
\* or fails: a step that can be taken is taken.
FairSpec == Spec /\ WF_progress(Next)

\* ------------------------------------------------ a run with its calls tallied
\* The same functions with every generate_content call and every GET request counted, in
\* an environment with every kind of failure and fewer kinds of answers and pages.
TallyRefineOutcomes == {OracleText(<<" ", "g", "\n">>), QuotaError, ServiceError}
TallyScoreOutcomes ==
  {OracleText(<<"0", ".", "7">>), OracleText(<<"1", ".", "4", "2", "9", ".", "0">>),
   QuotaError, ServiceError}
TallyFetchOutcomes ==
  {Response(200, "json", <<ArticlePage>>), Response(200, "json", <<MissingPage>>)} \cup Failures

RefineTally ==
  RefinePass(TallyRefineOutcomes) /\ oracleCalls' = oracleCalls + 1 /\ UNCHANGED getCalls
ScoreTally ==
  ScorePass(TallyScoreOutcomes) /\ oracleCalls' = oracleCalls + 1 /\ UNCHANGED getCalls
SearchTally ==
  SearchPass(SearchOutcomes) /\ getCalls' = getCalls + 1 /\ UNCHANGED oracleCalls
FetchTally ==
  FetchPass(TallyFetchOutcomes) /\ getCalls' = getCalls + 1 /\ UNCHANGED oracleCalls

NextTally ==
  \/ RefineTally \/ RefineExhausted
  \/ SearchTally \/ SearchExhausted
  \/ FetchTally \/ FetchExhausted
  \/ ScoreTally \/ ScoreExhausted
  \/ AfterRefine \/ AfterSearch \/ AfterFallback \/ AfterFetch \/ AfterScore
  \/ Propagate

SpecTally == Init /\ [][NextTally]_vars

\* ------------------------------------------------ a run with the oracle down
\* The same functions in an environment where every generate_content call fails, with a
\* quota error or another error, and every GET is answered 200 with a well-formed body.
DownOracleOutcomes == {QuotaError, ServiceError}
DownSearchOutcomes == {Response(200, "json", ResultsFor(l)) : l \in TitleLists}
DownFetchOutcomes == {Response(200, "json", pl) : pl \in PageLists}

RefineDown == RefinePass(DownOracleOutcomes) /\ UNCHANGED counts
ScoreDown == ScorePass(DownOracleOutcomes) /\ UNCHANGED counts
SearchDown == SearchPass(DownSearchOutcomes) /\ UNCHANGED counts
FetchDown == FetchPass(DownFetchOutcomes) /\ UNCHANGED counts

NextDown ==
  \/ RefineDown \/ RefineExhausted
  \/ SearchDown
  \/ FetchDown
  \/ ScoreDown \/ ScoreExhausted
  \/ AfterRefine \/ AfterSearch \/ AfterFallback \/ AfterFetch \/ AfterScore

SpecDown == Init /\ [][NextDown]_vars

\* ------------------------------------- a run against a well-stocked endpoint
\* The same functions in an environment where every title of AllTitles matches the search
\* term, the search endpoint is at times rate limited, and nothing else fails.
LimitRefineOutcomes == {OracleText(<<" ", "g", "\n">>)}
LimitSearchOutcomes(term) ==
  {Response(200, "json", r) : r \in EndpointResults(SearchParams(term), Len(AllTitles))}
    \cup {RateLimited}
LimitFetchOutcomes == {Response(200, "json", <<ArticlePage>>), Response(200, "json", <<MissingPage>>)}
LimitScoreOutcomes == {OracleText(<<"0", ".", "7">>), OracleText(<<" ", "0", ".", "3", "\n">>)}

RefineLimit == RefinePass(LimitRefineOutcomes) /\ UNCHANGED counts
SearchLimit == SearchPass(LimitSearchOutcomes(searchCalls[Len(searchCalls)])) /\ UNCHANGED counts
FetchLimit == FetchPass(LimitFetchOutcomes) /\ UNCHANGED counts
ScoreLimit == ScorePass(LimitScoreOutcomes) /\ UNCHANGED counts

NextLimit ==
  \/ RefineLimit
  \/ SearchLimit \/ SearchExhausted
  \/ FetchLimit
  \/ ScoreLimit
  \/ AfterRefine \/ AfterSearch \/ AfterFallback \/ AfterFetch \/ AfterScore

SpecLimit == Init /\ [][NextLimit]_vars

\* ------------------------------------------------------------ observations
Found == pc = "returned" /\ "score" \in DOMAIN result
NotFound(reason) == pc = "returned" /\ "error" \in DOMAIN result /\ result.error = reason

\* the value returned by get_wikipedia_content is Absent or has an empty body
Skipped(pair) == pair = Absent \/ pair[2] = ""

AllQuota(tr) == \A i \in DOMAIN tr : tr[i].kind = "quota"
All429(tr) == \A i \in DOMAIN tr : tr[i].kind = "response" /\ tr[i].code = 429

\* C1: a Found result carries the maximum score among the candidates of the run, and its
\* title and content are those of a candidate with that score.
C1_FoundIsBestCandidate ==
  Found =>
    /\ \A i \in DOMAIN candidates : candidates[i][3] <= result.score
    /\ \E i \in DOMAIN candidates :
         candidates[i] = <<result.title, result.content, result.score>>

\* a run where the best candidate was not the first one scored
C1_Witness ==
  /\ Found
  /\ Len(scoreCalls) = 2
  /\ result.title = scoreCalls[2][2]
  /\ candidates[1][3] > candidates[2][3]

\* C2: with at least one candidate the pipeline returns Found with the top candidate, with the
\* keys title, content, score, whether or not the top score reaches 0.7 (0.0 included).
C2_FoundBelowThreshold ==
  (pc = "returned" /\ candidates # <<>>) =>
    /\ DOMAIN result = {"title", "content", "score"}
    /\ result = [title |-> candidates[1][1], content |-> candidates[1][2],
                 score |-> candidates[1][3]]

\* a run whose best candidate scored 0.0
C2_Witness == Found /\ result.score = 0 /\ result.score < THRESHOLD

\* C3: when the search on the refined term returned nothing, the next search is on the original
\* query; a run ending in "no pages found" searched the refined term and then the query.
C3_FallbackBeforeNotFound ==
  /\ (Len(searchRets) >= 1 /\ searchRets[1] = <<>>) =>
       /\ Len(searchCalls) = 2
       /\ searchCalls[2] = query
  /\ NotFound(NO_PAGES) =>
       /\ searchCalls = <<refined_query, query>>
       /\ searchRets = << <<>>, <<>> >>

\* a run ending in "no pages found" whose refined term differs from the query
C3_Witness == NotFound(NO_PAGES) /\ refined_query # query

\* C4: when both searches returned nothing the pipeline has returned "no pages found" and has
\* called neither get_wikipedia_content nor is_relevant_page_gemini.
C4_NoPagesNoFetchNoScore ==
  (Len(searchRets) = 2 /\ searchRets[1] = <<>> /\ searchRets[2] = <<>>) =>
    /\ pc = "returned"
    /\ result = [error |-> NO_PAGES]
    /\ fetchCalls = <<>>
    /\ scoreCalls = <<>>

\* both searches came back empty, the second after rate limiting
C4_Witness ==
  /\ searchRets = << <<>>, <<>> >>
  /\ pc = "returned"
  /\ Len(trace) = 3 /\ All429(trace)

\* C5: when search gave titles and every fetch gave no article (Absent or an empty body), the
\* pipeline has returned "no relevant content": a returned value, not an exception.
C5_AllAbsentNoContent ==
  (/\ titles # <<>>
   /\ Len(fetchRets) = Len(titles)
   /\ \A i \in DOMAIN fetchRets : Skipped(fetchRets[i])) =>
    /\ pc = "returned"
    /\ result = [error |-> NO_CONTENT]

\* two titles, one fetched as Absent and one with an empty body
C5_Witness ==
  /\ NotFound(NO_CONTENT)
  /\ Len(titles) = 2
  /\ \E i, j \in DOMAIN fetchRets : fetchRets[i] = Absent /\ fetchRets[j][2] = ""

\* C6: is_relevant_page_gemini returns a score in [0.0, 1.0] whatever the oracle answered, and
\* so does every candidate and every Found result.
C6_ScoreInUnitInterval ==
  /\ (pc = "score" /\ status = "returned") => ret[1] \in 0..SCALE
  /\ \A i \in DOMAIN candidates : candidates[i][3] \in 0..SCALE
  /\ Found => result.score \in 0..SCALE

\* the oracle answered "-1.5": out of range, returned as 1.0
C6_Witness ==
  /\ pc = "score" /\ status = "returned"
  /\ trace[Len(trace)] = OracleText(<<"-", "1", ".", "5">>)
  /\ ret[1] = SCALE

\* C7: when every oracle call of an invocation fails with a quota error, refine makes exactly 4
\* generate calls and returns the query, and the scorer makes exactly 4 and returns 0.0.
C7_OracleRetryCap ==
  /\ (pc \in {"refine", "score"} /\ AllQuota(trace)) => Len(trace) <= 4
  /\ (pc = "refine" /\ status = "returned" /\ AllQuota(trace)) =>
       Len(trace) = 4 /\ ret[1] = query
  /\ (pc = "score" /\ status = "returned" /\ AllQuota(trace)) =>
       Len(trace) = 4 /\ ret[1] = 0

\* the scorer returned after quota errors only
C7_Witness ==
  /\ pc = "score" /\ status = "returned"
  /\ trace # <<>> /\ AllQuota(trace)
  /\ Len(slept) = 4

\* C8: when every response of an invocation is HTTP 429, search_wikipedia issues exactly 3 GETs
\* and returns the empty list, and get_wikipedia_content issues exactly 3 and returns Absent.
C8_WikiRetryCap ==
  /\ (pc \in {"search", "fallback", "fetch"} /\ All429(trace)) => Len(trace) <= 3
  /\ (pc \in {"search", "fallback"} /\ status = "returned" /\ All429(trace)) =>
       Len(trace) = 3 /\ ret[1] = <<>>
  /\ (pc = "fetch" /\ status = "returned" /\ All429(trace)) =>
       Len(trace) = 3 /\ ret[1] = Absent

\* get_wikipedia_content returned after 429 responses only
C8_Witness ==
  /\ pc = "fetch" /\ status = "returned"
  /\ trace # <<>> /\ All429(trace)
  /\ ret[1] = Absent

\* C9: refine_query_with_gemini never raises, and whenever its last oracle call failed (quota
\* on every attempt, another error at once, or another error after quota errors) it returns the
\* original query.
C9_RefineFallsBackToQuery ==
  /\ pc = "refine" => status # "raised"
  /\ (pc = "refine" /\ status = "returned" /\ trace[Len(trace)].kind # "text") => ret[1] = query

\* a quota error followed by another error
C9_Witness ==
  /\ pc = "refine" /\ status = "returned"
  /\ Len(trace) = 2
  /\ trace[1].kind = "quota" /\ trace[2].kind = "error"
  /\ ret[1] = query

\* the attempt on answer o failed, and not with a quota signal
NonQuotaFailure(site, o) ==
  \/ o.kind = "error"
  \/ site = "score" /\ o.kind = "text" /\ ~ScoreTry(o).ok

\* C10: in refine and in the scorer a failure that is not a quota signal ends the invocation:
\* it is the last oracle call, and no sleep follows it.
C10_FatalAbortsAtOnce ==
  pc \in {"refine", "score"} =>
    \A i \in DOMAIN trace :
      NonQuotaFailure(pc, trace[i]) =>
        /\ i = Len(trace)
        /\ status = "returned"
        /\ Len(slept) = i - 1

\* the pipeline is in search_wikipedia or get_wikipedia_content
WikiSite == pc \in {"search", "fallback", "fetch"}

\* the fallback value of the function called at site
EmptyValue(site) == IF site = "fetch" THEN Absent ELSE <<>>

Count429(tr) == Cardinality({i \in DOMAIN tr : tr[i].kind = "response" /\ tr[i].code = 429})

\* C11: in search_wikipedia and get_wikipedia_content a response whose status is neither 200
\* nor 429 is the last request of the invocation, which returns the empty list (Absent) with
\* no sleep after it, on whichever attempt it comes.
C11_OtherStatusEndsInvocation ==
  WikiSite =>
    \A i \in DOMAIN trace :
      (trace[i].kind = "response" /\ trace[i].code \notin {200, 429}) =>
        /\ i = Len(trace)
        /\ status = "returned"
        /\ ret[1] = EmptyValue(pc)
        /\ Len(slept) = Count429(trace)

\* a 500 on the second attempt, after a 429
C11_Witness ==
  /\ pc = "fetch" /\ status = "returned"
  /\ Len(trace) = 2
  /\ trace[1] = RateLimited /\ trace[2] = ServerError
  /\ slept = <<2>>

\* C12 as stated: a network fault on any attempt makes search_wikipedia and
\* get_wikipedia_content return the empty list (Absent) without another request.
C12_FaultEndsInvocation ==
  WikiSite =>
    \A i \in DOMAIN trace :
      trace[i].kind = "fault" =>
        /\ i = Len(trace)
        /\ status = "returned"
        /\ ret[1] = EmptyValue(pc)

\* C12 as amended: a network fault on the first or second request is followed by the next
\* request at once, without a sleep; a network fault on the third request makes the function
\* return the empty list (Absent). Network faults are retried like 429 responses, within the
\* same three requests.
C12_FaultRetriedUntilLastAttempt ==
  WikiSite =>
    /\ Len(slept) = Count429(trace)
    /\ \A i \in DOMAIN trace :
         trace[i].kind = "fault" =>
           IF i <= WIKI_MAX_RETRIES
           THEN i = Len(trace) => (status = "running" /\ ret = <<>> /\ attempt = i)
           ELSE i = Len(trace) /\ status = "returned" /\ ret[1] = EmptyValue(pc)

\* a search that answered with titles after a network fault
C12_Witness ==
  /\ pc = "search" /\ status = "returned"
  /\ Len(trace) = 2
  /\ trace[1] = NetworkFault
  /\ ret[1] # <<>>

\* C13: search_wikipedia and get_wikipedia_content never raise to their caller.
C13_WikiNeverRaises == WikiSite => status # "raised"

IsLetterOfDisambiguation(c, k) ==
  \/ c = DISAMBIGUATION[k]
  \/ \E j \in DOMAIN LowerCase : LowerCase[j] = DISAMBIGUATION[k] /\ UpperCase[j] = c

\* the page has a category whose name holds "disambiguation" in some letter case
HasDisambiguationCategory(page) ==
  /\ "categories" \in DOMAIN page
  /\ \E i \in DOMAIN page.categories :
       \E off \in 0..(Len(page.categories[i]) - Len(DISAMBIGUATION)) :
         \A k \in DOMAIN DISAMBIGUATION :
           IsLetterOfDisambiguation(page.categories[i][off + k], k)

\* the last answer of the trace is a well-formed 200 response
LastIsJson == trace # <<>> /\ trace[Len(trace)].code = 200 /\ trace[Len(trace)].body = "json"

\* C15: for an article with a category naming "disambiguation" in any letter case
\* get_wikipedia_content returns Absent, with or without an extract; every scoring call and
\* every candidate is for a (title, body) that a fetch returned and that is not Absent.
C15_DisambiguationNeverCandidate ==
  /\ (/\ pc = "fetch" /\ status = "returned" /\ LastIsJson
      /\ trace[Len(trace)].data # <<>>
      /\ HasDisambiguationCategory(trace[Len(trace)].data[1])) => ret[1] = Absent
  /\ \A i \in DOMAIN scoreCalls :
       /\ <<scoreCalls[i][2], scoreCalls[i][3]>> # Absent
       /\ \E j \in DOMAIN fetchRets : fetchRets[j] = <<scoreCalls[i][2], scoreCalls[i][3]>>
  /\ \A i \in DOMAIN candidates :
       \E j \in DOMAIN scoreCalls :
         scoreCalls[j][2] = candidates[i][1] /\ scoreCalls[j][3] = candidates[i][2]

\* a page of category "Category:Disambiguation pages" with an extract, fetched as Absent
C15_Witness ==
  /\ pc = "fetch" /\ status = "returned" /\ LastIsJson
  /\ trace[Len(trace)].data = <<DisambiguationPage>>
  /\ Get(DisambiguationPage, "extract", "") # ""
  /\ ret[1] = Absent

\* C16: get_wikipedia_content returns Absent when the article is missing or its extract is
\* empty: a pair it returns is Absent or has a non-empty body.
C16_ReturnedBodyNonEmpty ==
  (pc = "fetch" /\ status = "returned") => (ret[1] = Absent \/ ret[1][2] # "")

\* C17: the pipeline never changes the query; every scoring call is given the caller's query,
\* not the refined term, whichever search produced the titles; the refined term is the
\* argument of the first search only, and a second search is given the caller's query.
C17_QueryReadOnly ==
  /\ [][query' = query]_vars
  /\ [](/\ \A i \in DOMAIN scoreCalls : scoreCalls[i][1] = query
        /\ Len(searchCalls) <= 2
        /\ \A i \in DOMAIN searchCalls :
             searchCalls[i] = IF i = 1 THEN refined_query ELSE query)

C17_Witness ==
  /\ pc = "returned"
  /\ refined_query # query
  /\ Len(searchCalls) = 2
  /\ Len(scoreCalls) >= 1

\* C19: whatever the oracle and the encyclopedia do, fetch_best_wikipedia_page never ends
\* with an exception, and what it returns is Found, NotFound(no pages found) or
\* NotFound(no relevant content).
C19_NoFailureEscapes ==
  /\ pc # "raised"
  /\ pc = "returned" => (Found \/ NotFound(NO_PAGES) \/ NotFound(NO_CONTENT))

NotSkipped(pair) == ~Skipped(pair)

\* the get_wikipedia_content calls of this run whose value has been returned
FetchesReturned ==
  IF pc = "fetch" \/ (pc = "raised" /\ fetchCalls # <<>>)
  THEN Len(fetchCalls) - 1
  ELSE Len(fetchCalls)

\* C20: titles are fetched in the order the search returned them, one at a time: a fetch
\* starts only when every earlier fetch has returned and every earlier scoring is over;
\* the scoring calls are, in order, the fetched pairs that are not Absent and have a body;
\* each scoring call yields one candidate, a skipped title none.
C20_InOrderOneAtATime ==
  /\ Len(fetchCalls) = idx
  /\ fetchCalls = SubSeq(titles, 1, idx)
  /\ Len(fetchRets) = FetchesReturned
  /\ LET kept == SelectSeq(fetchRets, NotSkipped)
     IN scoreCalls = [i \in DOMAIN kept |-> <<query, kept[i][1], kept[i][2]>>]
  /\ Len(candidates) = IF pc = "score" THEN Len(scoreCalls) - 1 ELSE Len(scoreCalls)
  /\ pc # "returned" =>
       \A i \in DOMAIN candidates :
         candidates[i][1] = scoreCalls[i][2] /\ candidates[i][2] = scoreCalls[i][3]

C20_Witness ==
  /\ pc = "returned"
  /\ Len(fetchCalls) = 2
  /\ fetchRets[1] # Absent /\ fetchRets[1][2] = ""
  /\ ~Skipped(fetchRets[2])
  /\ Len(scoreCalls) = 1 /\ Len(candidates) = 1

\* the pipeline is in refine_query_with_gemini or is_relevant_page_gemini
OracleSite == pc \in {"refine", "score"}

\* the sleeps the answers tr call for: 60 seconds for each oracle quota error, 2 * n seconds
\* for an HTTP 429 on the n-th request (0-based attempt n - 1), nothing for any other answer
RECURSIVE ExpectedSleeps(_, _)
ExpectedSleeps(oracle, tr) ==
  IF tr = <<>> THEN <<>>
  ELSE LET n == Len(tr)
           front == ExpectedSleeps(oracle, SubSeq(tr, 1, n - 1))
       IN IF oracle
          THEN IF tr[n].kind = "quota" THEN Append(front, 60) ELSE front
          ELSE IF tr[n].kind = "response" /\ tr[n].code = 429 THEN Append(front, 2 * n)
               ELSE front

\* C21: the sleeps of an invocation are exactly 60 seconds after each oracle quota error and
\* 2*(attempt+1) seconds after each encyclopedia 429; no other failure causes a sleep.
C21_BackoffSchedule ==
  (OracleSite \/ WikiSite) => slept = ExpectedSleeps(OracleSite, trace)

\* C22: is_relevant_page_gemini never raises, and it returns 0.0 when an answer of the oracle
\* had no parseable decimal, when an oracle call failed with an error that is not a quota
\* error, and when every attempt failed with a quota error.
C22_ScoreFallsBackToZero ==
  /\ pc = "score" => status # "raised"
  /\ (/\ pc = "score" /\ status = "returned"
      /\ \/ \E i \in DOMAIN trace : NonQuotaFailure("score", trace[i])
         \/ AllQuota(trace)) => ret[1] = 0

\* the place of title t in the list the search returned
Pos(t) == CHOOSE i \in DOMAIN titles : titles[i] = t

\* C23: among the candidates that share the highest score, the Found result is the one whose
\* title came earliest in the list the search returned.
C23_TieGoesToEarliestTitle ==
  Found =>
    \A i \in DOMAIN candidates :
      candidates[i][3] = result.score => Pos(result.title) <= Pos(candidates[i][1])

\* two candidates with the same score: the first title of the search is returned
C23_Witness ==
  /\ Found
  /\ Len(candidates) = 2
  /\ candidates[1][3] = candidates[2][3]
  /\ result.title = titles[1]
  /\ candidates[2][1] = titles[2]

\* the stage of the run: Refining, Searching, SearchFallback, Fetching+Scoring, Done
Stage(at) ==
  CASE at = "refine" -> 1
    [] at = "search" -> 2
    [] at = "fallback" -> 3
    [] at \in {"fetch", "score"} -> 4
    [] OTHER -> 5

StagesNeverReentered == [][Stage(pc') >= Stage(pc)]_vars

\* every run ends, with a Result or with an exception
RunEnds == StagesNeverReentered /\ <>(pc \in {"returned", "raised"})

\* C24: no stage is entered again once left, and every run eventually reaches a Result,
\* Found or NotFound, whatever failures the collaborators produce.
C24_EventuallyResult ==
  /\ StagesNeverReentered
  /\ <>(Found \/ NotFound(NO_PAGES) \/ NotFound(NO_CONTENT))

\* C25: when the first answer to a scoring prompt has no parseable decimal, whatever its
\* characters, is_relevant_page_gemini returns 0.0 after that one oracle call, without a
\* sleep and without a retry.
C25_ParseFailureNotRetried ==
  (/\ pc = "score" /\ trace # <<>>
   /\ trace[1].kind = "text" /\ ~FloatOk(DigitsAndDots(Strip(trace[1].s)))) =>
    /\ Len(trace) = 1
    /\ slept = <<>>
    /\ status = "returned" /\ ret[1] = 0

\* the answers before the last one
Front(tr) == SubSeq(tr, 1, Len(tr) - 1)

\* r is s without its leading and trailing whitespace
IsTrimOf(r, s) ==
  \E i \in 1..(Len(s) + 1) : \E j \in 0..Len(s) :
    /\ r = SubSeq(s, i, j)
    /\ \A k \in 1..(i - 1) : s[k] \in Whitespace
    /\ \A k \in (j + 1)..Len(s) : s[k] \in Whitespace
    /\ r # <<>> => (r[1] \notin Whitespace /\ r[Len(r)] \notin Whitespace)

\* the function called has returned after rate-limit failures only, followed by a success
SucceededAfterRetries ==
  /\ status = "returned" /\ trace # <<>>
  /\ IF OracleSite
     THEN /\ AllQuota(Front(trace))
          /\ trace[Len(trace)].kind = "text"
          /\ pc = "score" => FloatOk(DigitsAndDots(Strip(trace[Len(trace)].s)))
     ELSE /\ WikiSite
          /\ All429(Front(trace))
          /\ LastIsJson

\* C26: after k rate-limit failures (k <= 3 quota errors of the oracle, k <= 2 HTTP 429 of the
\* encyclopedia) and then a success, the function returns the value of the success, not its
\* fallback: the trimmed text, the clamped score, the titles, the article. It does not give
\* up before its cap: it returns after rate-limit failures alone only when 4 (3) were met.
C26_SuccessAfterRetriesIsReturned ==
  /\ SucceededAfterRetries =>
       LET last == trace[Len(trace)]
       IN CASE pc = "refine" -> Len(trace) <= 4 /\ IsTrimOf(ret[1], last.s)
            [] pc = "score" ->
                 LET v == FloatVal(DigitsAndDots(Strip(last.s)))
                 IN /\ Len(trace) <= 4
                    /\ ret[1] = IF v > SCALE THEN SCALE ELSE IF v < 0 THEN 0 ELSE v
            [] pc \in {"search", "fallback"} ->
                 /\ Len(trace) <= 3
                 /\ ret[1] = [i \in DOMAIN last.data |-> last.data[i].title]
            [] pc = "fetch" ->
                 /\ Len(trace) <= 3
                 /\ ret[1] = IF last.data # <<>> /\ ~HasDisambiguationCategory(last.data[1])
                             THEN <<titles[idx], Get(last.data[1], "extract", "")>>
                             ELSE Absent
  /\ (OracleSite /\ status = "returned" /\ AllQuota(trace)) => Len(trace) > 3
  /\ (WikiSite /\ status = "returned" /\ All429(trace)) => Len(trace) > 2

\* three quota errors, then the oracle answers 0.95
C26_Witness ==
  /\ pc = "score" /\ SucceededAfterRetries
  /\ Len(trace) = 4
  /\ trace[4].s = <<"0", ".", "9", "5">>
  /\ ret[1] = 950

\* C27: one invocation of refine or of the scorer makes at most 4 oracle calls, one
\* invocation of search_wikipedia or get_wikipedia_content at most 3 GETs, every request that
\* does not end the invocation (429 or network fault) using up one attempt; a run makes at
\* most 4 + 4n oracle calls and 6 + 3n GETs, n being the number of titles returned.
C27_CallBudget ==
  /\ OracleSite => Len(trace) <= 4
  /\ WikiSite => Len(trace) <= 3
  /\ (WikiSite /\ status = "running") => attempt = Len(trace)
  /\ oracleCalls <= 4 + 4 * Len(titles)
  /\ getCalls <= 6 + 3 * Len(titles)

\* a run that used up both budgets: two titles, 12 oracle calls and 12 GETs
C27_Witness ==
  /\ pc = "returned"
  /\ Len(titles) = 2
  /\ oracleCalls = 4 + 4 * Len(titles)
  /\ getCalls = 6 + 3 * Len(titles)

\* C28: search_wikipedia is called at most twice in a run, first with the refined term; a
\* second call is made, with the original query, only after the first returned the empty
\* list; when the first returned titles, these are the titles of the loop and of the fetches.
C28_OriginalQueryOnlyAsFallback ==
  /\ Len(searchCalls) <= 2
  /\ searchCalls # <<>> => searchCalls[1] = refined_query
  /\ Len(searchCalls) = 2 =>
       /\ searchCalls[2] = query
       /\ searchRets # <<>> /\ searchRets[1] = <<>>
  /\ (searchRets # <<>> /\ searchRets[1] # <<>>) =>
       /\ Len(searchCalls) = 1
       /\ titles = searchRets[1]
       /\ fetchCalls = SubSeq(searchRets[1], 1, Len(fetchCalls))

\* the refined term found two titles: one search, and both titles fetched
C28_Witness ==
  /\ pc = "returned"
  /\ refined_query # query
  /\ Len(searchCalls) = 1
  /\ Len(searchRets[1]) = 2
  /\ fetchCalls = searchRets[1]

\* the fetches of this run that gave an article with a body
Articles == {j \in DOMAIN fetchRets : ~Skipped(fetchRets[j])}

\* C29: with every oracle call failing and every search and fetch answered, the refined term
\* is the original query, every candidate has score 0.0, and a run in which some fetch gave
\* an article returns Found with score 0.0 and the first such title in search order.
C29_OracleDownStillFound ==
  /\ searchCalls # <<>> => (refined_query = query /\ searchCalls[1] = query)
  /\ \A i \in DOMAIN candidates : candidates[i][3] = 0
  /\ (pc = "returned" /\ Articles # {}) =>
       LET first == CHOOSE j \in Articles : \A k \in Articles : j <= k
       IN /\ Found
          /\ result = [title |-> titles[first], content |-> fetchRets[first][2], score |-> 0]

\* the first title is a disambiguation page, the second an article: the second is returned
C29_Witness ==
  /\ Found
  /\ Len(titles) = 2
  /\ fetchRets[1] = Absent
  /\ result.title = titles[2] /\ result.score = 0
  /\ Len(slept) = 4

RECURSIVE SumSeq(_)
SumSeq(q) == IF q = <<>> THEN 0 ELSE Head(q) + SumSeq(Tail(q))

CountQuota(tr) == Cardinality({i \in DOMAIN tr : tr[i].kind = "quota"})

\* C30: every rate-limit failure has its sleep, the one of the last permitted attempt too:
\* at any moment the sleeps made are as many as the 429 responses received (and not fewer
\* than the oracle's quota errors); search_wikipedia and get_wikipedia_content return their
\* fallback after 429 alone having slept 2 + 4 + 6 = 12 seconds, refine and the scorer after
\* quota errors alone having slept 4 * 60 = 240 seconds.
C30_SleepAfterEveryRateLimit ==
  /\ WikiSite => Len(slept) = Count429(trace)
  /\ OracleSite => Len(slept) >= CountQuota(trace)
  /\ (WikiSite /\ status = "returned" /\ All429(trace)) =>
       /\ slept = <<2, 4, 6>> /\ SumSeq(slept) = 12
       /\ ret[1] = EmptyValue(pc)
  /\ (OracleSite /\ status = "returned" /\ AllQuota(trace)) =>
       /\ slept = <<60, 60, 60, 60>> /\ SumSeq(slept) = 240
       /\ ret[1] = IF pc = "refine" THEN query ELSE 0

\* search_wikipedia met three 429 responses and slept after each
C30_Witness ==
  /\ pc = "search" /\ status = "returned"
  /\ Len(trace) = 3 /\ All429(trace)
  /\ SumSeq(slept) = 12

====
